---------------------------- MODULE Spec2Model ----------------------------
(***************************************************************************)
(* Model of the validation engine, the domain validators and the          *)
(* registration workflow of slenderaac.                                    *)
(*                                                                         *)
(* A JavaScript string is a sequence of one-character strings, so that    *)
(* toLowerCase, toTitleCase, startsWith, includes, trim and the regular    *)
(* expressions are computed character by character.                        *)
(***************************************************************************)
EXTENDS Integers, Sequences, FiniteSets, TLC

VARIABLES
    accounts,            \* table accounts: sequence of rows, id = index
    players,             \* table players: sequence of rows
    emailVerifications,  \* table of email verification tokens
    monsters,            \* table monsters: set of names
    collation,           \* how the database compares strings: "cs" or "ci"
    req,                 \* one record per registration request
    outbox,              \* verification emails dispatched
    nameIn,              \* input of a characterNameValidator evaluation
    nameOut,             \* its result
    vRules,              \* rule set of a validate call
    vData,               \* form data of a validate call
    vPos,                \* position of the validate loop
    vErrors,             \* errors accumulated by the validate loop
    vCalls,              \* validators invoked so far by the validate loop
    guardOut,            \* outcome of the guards that follow validate
    towns,               \* table towns, in the order findMany returns it
    townsOut             \* outcome of a getAvailableTowns call

vars == <<accounts, players, emailVerifications, monsters, collation, req,
          outbox, nameIn, nameOut, vRules, vData, vPos, vErrors, vCalls,
          guardOut, towns, townsOut>>

-----------------------------------------------------------------------------
(* Characters and strings *)

LowerChars == <<"a","b","c","d","e","f","g","h","i","j","k","l","m",
                "n","o","p","q","r","s","t","u","v","w","x","y","z">>

UpperChars == <<"A","B","C","D","E","F","G","H","I","J","K","L","M",
                "N","O","P","Q","R","S","T","U","V","W","X","Y","Z">>

Digits == {"0","1","2","3","4","5","6","7","8","9"}

Letters == 1..Len(LowerChars)

UpperSet == {UpperChars[i] : i \in Letters}

LowerSet == {LowerChars[i] : i \in Letters}

IsUpper(c) == c \in UpperSet

IsLower(c) == c \in LowerSet

LowerOf == [c \in UpperSet |-> LowerChars[CHOOSE i \in Letters : UpperChars[i] = c]]

UpperOf == [c \in LowerSet |-> UpperChars[CHOOSE i \in Letters : LowerChars[i] = c]]

\* String.prototype.toLowerCase on one character
toLowerCaseChar(c) == IF IsUpper(c) THEN LowerOf[c] ELSE c

\* String.prototype.toUpperCase on one character
toUpperCaseChar(c) == IF IsLower(c) THEN UpperOf[c] ELSE c

toLowerCase(s) == [i \in 1..Len(s) |-> toLowerCaseChar(s[i])]

\* the regular expression class \w
IsWordChar(c) == IsUpper(c) \/ IsLower(c) \/ c \in Digits \/ c = "_"

\* the regular expression class \s
IsSpace(c) == c \in {" ", "\t", "\n"}

startsWith(s, p) == Len(p) <= Len(s) /\ SubSeq(s, 1, Len(p)) = p

includes(s, p) ==
    \E i \in 1..(Len(s) - Len(p) + 1) : SubSeq(s, i, i + Len(p) - 1) = p

trim(s) ==
    IF \A i \in 1..Len(s) : IsSpace(s[i]) THEN <<>>
    ELSE LET first == CHOOSE i \in 1..Len(s) :
                          ~IsSpace(s[i]) /\ \A j \in 1..(i-1) : IsSpace(s[j])
             last  == CHOOSE i \in 1..Len(s) :
                          ~IsSpace(s[i]) /\ \A j \in (i+1)..Len(s) : IsSpace(s[j])
         IN SubSeq(s, first, last)

\* str.replace(/\w\S*/g, w => w.replace(/^\w/, c => c.toUpperCase())) from
\* position i on; inMatch says that position i continues a match of \w\S*
RECURSIVE titleCaseFrom(_, _, _)
titleCaseFrom(s, i, inMatch) ==
    IF i > Len(s) THEN <<>>
    ELSE IF inMatch
         THEN <<s[i]>> \o titleCaseFrom(s, i + 1, ~IsSpace(s[i]))
         ELSE IF IsWordChar(s[i])
              THEN <<toUpperCaseChar(s[i])>> \o titleCaseFrom(s, i + 1, TRUE)
              ELSE <<s[i]>> \o titleCaseFrom(s, i + 1, FALSE)

toTitleCase(str) == titleCaseFrom(str, 1, FALSE)

\* str.replace(/([A-Z])/g, c => ` ${c.toLowerCase()}`)
RECURSIVE spaceOutCapitals(_)
spaceOutCapitals(s) ==
    IF s = <<>> THEN <<>>
    ELSE (IF IsUpper(Head(s)) THEN <<" ", toLowerCaseChar(Head(s))>>
          ELSE <<Head(s)>>) \o spaceOutCapitals(Tail(s))

toProperCase(str) ==
    LET spaced == spaceOutCapitals(str)
    IN IF spaced = <<>> THEN <<>>
       ELSE <<toUpperCaseChar(Head(spaced))>> \o Tail(spaced)

-----------------------------------------------------------------------------
(* Field values: what FormData.get returns *)

Null == [t |-> "null", s |-> <<>>]

File == [t |-> "file", s |-> <<>>]

Str(s) == [t |-> "string", s |-> s]

IsString(v) == v.t = "string"

\* JavaScript truthiness of a field value
Truthy(v) == v.t = "file" \/ (v.t = "string" /\ v.s # <<>>)

\* the === of two values read from different fields of one form
StrictEq(v, w) == v.t = w.t /\ v.t # "file" /\ v.s = w.s

-----------------------------------------------------------------------------
(* Messages: a validator returns null or a string. A message is a sequence *)
(* of tokens; the token ":field" stands for that substring.                *)

NoError == [nil |-> TRUE, msg |-> <<>>]

Msg(m) == [nil |-> FALSE, msg |-> m]

\* svelte-i18n lookup of a message key
Translate(key) == <<key>>

MinNameLen == 3

MaxNameLen == 20

\* $_('validations.min-length', { values: { min: 3 } })
MinLengthMsg == Msg(<<"validations.min-length", "min", "3">>)

\* $_('validations.max-length', { values: { max: 20 } })
MaxLengthMsg == Msg(<<"validations.max-length", "max", "20">>)


-----------------------------------------------------------------------------
(* Generic validators *)

\* a presence check that accepts every value
presenceValidatorNone(value) == NoError

presenceValidator(value) ==
    IF ~Truthy(value) THEN Msg(Translate("validations.required"))
    ELSE NoError

stringValidator(value) ==
    IF Truthy(value) /\ ~IsString(value)
    THEN Msg(Translate("validations.string"))
    ELSE NoError

\* /^[^@]+@[^@]+\.[^@]+$/
MatchesEmailPattern(s) ==
    \E at \in 2..Len(s) :
        /\ s[at] = "@"
        /\ \A i \in 1..Len(s) : s[i] = "@" => i = at
        /\ \E dot \in (at + 2)..(Len(s) - 1) : s[dot] = "."

emailValidator(value) ==
    IF ~IsString(value) THEN Msg(Translate("validations.string"))
    ELSE IF ~MatchesEmailPattern(value.s)
         THEN Msg(Translate("validations.email"))
         ELSE NoError

\* an inline validator that accepts every confirmation
passwordMatchValidatorAny(value, password) == NoError

\* the inline validator of passwordConfirmation
passwordMatchValidator(value, password) ==
    IF ~StrictEq(value, password) THEN Msg(<<"Passwords do not match">>)
    ELSE NoError

-----------------------------------------------------------------------------
(* The character-name policy *)

\* the title of the deployment, read from the public environment
PUBLIC_TITLE == <<"S","l","e","n","d","e","r">>

BLOCKD_PREFIXES ==
    << <<"g","m">>, <<"d","m">>, <<"g","o","d">>, <<"c","m">>, <<"t","u","t","o","r">>, <<"s","e","n","i","o","r">>, <<"'">>, <<"-">> >>

BLOCKED_WORDS ==
    << <<"a","d","m","i","n">>,
       <<"a","d","m","i","n","i","s","t","r","a","t","o","r">>,
       <<"g","a","m","e","m","a","s","t","e","r">>,
       <<"g","a","m","e"," ","m","a","s","t","e","r">>,
       <<"g","a","m","e","-","m","a","s","t","e","r">>,
       <<"g","a","m","e","'","m","a","s","t","e","r">>,
       <<"-","-">>,
       <<"'","'">>,
       <<"'"," ">>,
       <<" ","'">>,
       <<"-"," ">>,
       <<" ","-">>,
       <<"-","'">>,
       <<"'","-">>,
       toLowerCase(PUBLIC_TITLE) >>

\* how the database compares two strings in a where clause: Prisma passes
\* the equality to the database, whose collation decides on letter case
DbEq(a, b) ==
    IF collation = "ci" THEN toLowerCase(a) = toLowerCase(b) ELSE a = b

\* prisma.monsters.count({ where: { name } })
countMonsters(name) == Cardinality({m \in monsters : DbEq(m, name)})

\* /^[a-z- ']+$/
MatchesNamePattern(s) ==
    /\ Len(s) > 0
    /\ \A i \in 1..Len(s) : IsLower(s[i]) \/ s[i] \in {"-", " ", "'"}

\* value.toLowerCase().startsWith(prefix) for some blocked prefix
HasBlockedPrefix(s) ==
    LET lower == toLowerCase(s)
    IN \E k \in 1..Len(BLOCKD_PREFIXES) : startsWith(lower, BLOCKD_PREFIXES[k])

\* a comparison that forgets to lower-case the value
HasBlockedWordCaseSensitive(s) ==
    \E k \in 1..Len(BLOCKED_WORDS) : includes(s, BLOCKED_WORDS[k])

\* value.toLowerCase().includes(blockedName) for some blocked word
HasBlockedWord(s) ==
    LET lower == toLowerCase(s)
    IN \E k \in 1..Len(BLOCKED_WORDS) : includes(lower, BLOCKED_WORDS[k])

\* One return statement of characterNameValidator: the message, the policy
\* step that returned (0: the final return null) and whether the monster
\* lookup was issued before returning.
NameResult(step, res, lookup) ==
    [done |-> TRUE, res |-> res, step |-> step, monsterLookup |-> lookup]

\* the length and casing steps exchanged
characterNameValidatorCasingFirst(value) ==
    IF ~IsString(value)
    THEN NameResult(1, Msg(Translate("validations.string")), FALSE)
    ELSE IF toTitleCase(value.s) # value.s
    THEN NameResult(3, Msg(Translate("validations.title-case")), FALSE)
    ELSE IF Len(value.s) < MinNameLen
    THEN NameResult(2, MinLengthMsg, FALSE)
    ELSE IF Len(value.s) > MaxNameLen
    THEN NameResult(2, MaxLengthMsg, FALSE)
    ELSE IF HasBlockedPrefix(value.s)
    THEN NameResult(4, Msg(Translate("validations.blocked-words")), FALSE)
    ELSE IF HasBlockedWord(value.s)
    THEN NameResult(5, Msg(Translate("validations.blocked-words")), FALSE)
    ELSE IF trim(value.s) # value.s
    THEN NameResult(6, Msg(Translate("validations.blocked-words")), FALSE)
    ELSE IF ~MatchesNamePattern(toLowerCase(value.s))
    THEN NameResult(7, Msg(Translate("validations.name")), FALSE)
    ELSE IF countMonsters(value.s) > 0
    THEN NameResult(8, Msg(Translate("validations.name-monster")), TRUE)
    ELSE NameResult(0, NoError, TRUE)

\* without the monster lookup
characterNameValidatorNoMonster(value) ==
    IF ~IsString(value)
    THEN NameResult(1, Msg(Translate("validations.string")), FALSE)
    ELSE IF Len(value.s) < MinNameLen
    THEN NameResult(2, MinLengthMsg, FALSE)
    ELSE IF Len(value.s) > MaxNameLen
    THEN NameResult(2, MaxLengthMsg, FALSE)
    ELSE IF toTitleCase(value.s) # value.s
    THEN NameResult(3, Msg(Translate("validations.title-case")), FALSE)
    ELSE IF HasBlockedPrefix(value.s)
    THEN NameResult(4, Msg(Translate("validations.blocked-words")), FALSE)
    ELSE IF HasBlockedWord(value.s)
    THEN NameResult(5, Msg(Translate("validations.blocked-words")), FALSE)
    ELSE IF trim(value.s) # value.s
    THEN NameResult(6, Msg(Translate("validations.blocked-words")), FALSE)
    ELSE IF ~MatchesNamePattern(toLowerCase(value.s))
    THEN NameResult(7, Msg(Translate("validations.name")), FALSE)
    ELSE NameResult(0, NoError, FALSE)

characterNameValidator(value) ==
    IF ~IsString(value)
    THEN NameResult(1, Msg(Translate("validations.string")), FALSE)
    ELSE IF Len(value.s) < MinNameLen
    THEN NameResult(2, MinLengthMsg, FALSE)
    ELSE IF Len(value.s) > MaxNameLen
    THEN NameResult(2, MaxLengthMsg, FALSE)
    ELSE IF toTitleCase(value.s) # value.s
    THEN NameResult(3, Msg(Translate("validations.title-case")), FALSE)
    ELSE IF HasBlockedPrefix(value.s)
    THEN NameResult(4, Msg(Translate("validations.blocked-words")), FALSE)
    ELSE IF HasBlockedWord(value.s)
    THEN NameResult(5, Msg(Translate("validations.blocked-words")), FALSE)
    ELSE IF trim(value.s) # value.s
    THEN NameResult(6, Msg(Translate("validations.blocked-words")), FALSE)
    ELSE IF ~MatchesNamePattern(toLowerCase(value.s))
    THEN NameResult(7, Msg(Translate("validations.name")), FALSE)
    ELSE IF countMonsters(value.s) > 0
    THEN NameResult(8, Msg(Translate("validations.name-monster")), TRUE)
    ELSE NameResult(0, NoError, TRUE)


-----------------------------------------------------------------------------
(* The validation engine *)

\* an error "if (error)" accepts: a non-null, non-empty string
IsError(error) == ~error.nil /\ error.msg # <<>>

\* error.replace(':field', replacement): the first occurrence only
replaceField(msg, replacement) ==
    IF \E k \in 1..Len(msg) : msg[k] = ":field"
    THEN LET k == CHOOSE k \in 1..Len(msg) :
                      msg[k] = ":field" /\ \A l \in 1..(k-1) : msg[l] # ":field"
         IN SubSeq(msg, 1, k - 1) \o replacement \o SubSeq(msg, k + 1, Len(msg))
    ELSE msg

\* unshift instead of push
pushErrorFirst(errors, key, msg) ==
    IF key \in DOMAIN errors
    THEN [errors EXCEPT ![key] = <<msg>> \o @]
    ELSE errors @@ (key :> <<msg>>)

\* errors[key] ||= []; errors[key].push(...)
pushError(errors, key, msg) ==
    IF key \in DOMAIN errors
    THEN [errors EXCEPT ![key] = Append(@, msg)]
    ELSE errors @@ (key :> <<msg>>)

\* the body of the inner loop of validate, given the validator's result
recordError(errors, key, error) ==
    IF IsError(error)
    THEN pushError(errors, key, replaceField(error.msg, toProperCase(key)))
    ELSE errors

NoErrors == <<>>

\* data.get(key)
FormGet(data, key) == IF key \in DOMAIN data THEN data[key] ELSE Null

\* Validators are named; the inline validator of passwordConfirmation closes
\* over the password read from the form. "empty" and "templated" are sample
\* validators of a caller's rule set: one returns '', one a ':field' template.
K_password == <<"p","a","s","s","w","o","r","d">>

applyValidator(validator, value, data) ==
    CASE validator = "presenceValidator" -> presenceValidator(value)
      [] validator = "stringValidator" -> stringValidator(value)
      [] validator = "emailValidator" -> emailValidator(value)
      [] validator = "characterNameValidator" ->
             LET r == characterNameValidator(value)
             IN [nil |-> r.res.nil, msg |-> r.res.msg]
      [] validator = "passwordMatch" ->
             passwordMatchValidator(value, FormGet(data, K_password))
      [] validator = "empty" -> Msg(<<>>)
      [] validator = "templated" ->
             IF Truthy(value) THEN Msg(<<":field", " ", "is", " ", "bad">>)
             ELSE NoError

\* the loop position that follows <<i, j>>: the next validator of field i,
\* or the first validator of the next field that has one
RECURSIVE firstPosFrom(_, _)
firstPosFrom(rules, i) ==
    IF i > Len(rules) THEN <<i, 1>>
    ELSE IF rules[i].validators = <<>> THEN firstPosFrom(rules, i + 1)
         ELSE <<i, 1>>

\* a loop that leaves a field after its first validator
nextPosSkipField(rules, pos) == firstPosFrom(rules, pos[1] + 1)

nextPos(rules, pos) ==
    IF pos[2] < Len(rules[pos[1]].validators) THEN <<pos[1], pos[2] + 1>>
    ELSE firstPosFrom(rules, pos[1] + 1)

\* const error = await validator(value) at loop position pos
invoke(rules, data, pos) ==
    applyValidator(rules[pos[1]].validators[pos[2]],
                   FormGet(data, rules[pos[1]].key), data)

\* one iteration of the inner loop of validate
iterate(rules, data, pos, errors) ==
    recordError(errors, rules[pos[1]].key, invoke(rules, data, pos))

RECURSIVE validateFrom(_, _, _, _)
validateFrom(rules, data, pos, errors) ==
    IF pos[1] > Len(rules) THEN errors
    ELSE validateFrom(rules, data, nextPos(rules, pos),
                      iterate(rules, data, pos, errors))

validate(rules, data) ==
    validateFrom(rules, data, firstPosFrom(rules, 1), NoErrors)


-----------------------------------------------------------------------------
(* The registration workflow: actions.default *)

NumRequests == 2

Requests == 1..NumRequests

K_email == <<"e","m","a","i","l">>

K_passwordConfirmation == <<"p","a","s","s","w","o","r","d","C","o","n","f","i","r","m","a","t","i","o","n">>

K_characterName == <<"c","h","a","r","a","c","t","e","r","N","a","m","e">>

K_characterSex == <<"c","h","a","r","a","c","t","e","r","S","e","x">>

\* the rule set passed to validate
RegistrationRules ==
    << [key |-> K_email,
        validators |-> <<"presenceValidator", "emailValidator">>],
       [key |-> K_password,
        validators |-> <<"presenceValidator", "stringValidator">>],
       [key |-> K_passwordConfirmation,
        validators |-> <<"presenceValidator", "stringValidator",
                         "passwordMatch">>],
       [key |-> K_characterName,
        validators |-> <<"presenceValidator", "characterNameValidator">>],
       [key |-> K_characterSex,
        validators |-> <<"presenceValidator", "stringValidator">>] >>

\* the invariant(...) guards that follow validation
GuardsHold(form) ==
    /\ Truthy(FormGet(form, K_email))
    /\ Truthy(FormGet(form, K_password))
    /\ Truthy(FormGet(form, K_characterName))
    /\ Truthy(FormGet(form, K_characterSex))
    /\ IsString(FormGet(form, K_email))
    /\ IsString(FormGet(form, K_password))
    /\ IsString(FormGet(form, K_characterName))
    /\ IsString(FormGet(form, K_characterSex))

\* without the lower-casing
normalizeEmailRaw(form) == FormGet(form, K_email).s

\* email = email.toLowerCase()
normalizeEmail(form) == toLowerCase(FormGet(form, K_email).s)

\* hashPassword(password): one-way, never the plaintext
hashPassword(password) == <<"sha1">> \o password

\* generateCharacterInput({ name, pronoun, sex }): the payload keeps the name
generateCharacterInput(name) == [name |-> name]

\* the unique index of accounts.email, which findUnique({ where: { email } })
\* requires
EmailUniqueViolation(email) ==
    \E i \in 1..Len(accounts) : DbEq(accounts[i].email, email)

\* a players table without the index
NameUniqueViolationNever(name) == FALSE

\* the unique index of players.name
NameUniqueViolation(name) ==
    \E i \in 1..Len(players) : DbEq(players[i].name, name)

\* what makes prisma.accounts.create reject
UniqueViolation(email, name) ==
    EmailUniqueViolation(email) \/ NameUniqueViolation(name)

\* responses of the action
Fail(invalid, errors) ==
    [kind |-> "fail", status |-> 400, invalid |-> invalid, errors |-> errors,
     location |-> ""]

Redirect(location) ==
    [kind |-> "redirect", status |-> 303, invalid |-> FALSE,
     errors |-> NoErrors, location |-> location]

Thrown(what) ==
    [kind |-> what, status |-> 500, invalid |-> FALSE, errors |-> NoErrors,
     location |-> ""]

NoResponse ==
    [kind |-> "none", status |-> 0, invalid |-> FALSE, errors |-> NoErrors,
     location |-> ""]

IdleRequest ==
    [pc |-> "idle", form |-> <<>>, response |-> NoResponse, log |-> <<>>,
     created |-> 0]

\* request r ends with the given response
Finish(r, response, steps) ==
    req' = [req EXCEPT ![r].pc = "done", ![r].response = response,
                       ![r].log = @ \o steps]

\* request r moves on to the next await
Goto(r, pc, steps) ==
    req' = [req EXCEPT ![r].pc = pc, ![r].log = @ \o steps]


\* without the nested emailVerification create
accountCreateDataNoVerification(form) ==
    [email    |-> normalizeEmail(form),
     password |-> hashPassword(FormGet(form, K_password).s),
     players  |-> << generateCharacterInput(FormGet(form, K_characterName).s)
                        @@ [is_main |-> TRUE] >>,
     emailVerification |-> <<>>]

\* the data argument of prisma.accounts.create
accountCreateData(form) ==
    [email    |-> normalizeEmail(form),
     password |-> hashPassword(FormGet(form, K_password).s),
     players  |-> << generateCharacterInput(FormGet(form, K_characterName).s)
                        @@ [is_main |-> TRUE] >>,
     emailVerification |-> << [expiresInDays |-> 30] >>]

-----------------------------------------------------------------------------
(* Inputs of the model *)

Form(email, password, passwordConfirmation, characterName, characterSex) ==
    (K_email :> email) @@ (K_password :> password)
      @@ (K_passwordConfirmation :> passwordConfirmation)
      @@ (K_characterName :> characterName) @@ (K_characterSex :> characterSex)

EmailUpper == Str(<<"A","@","b",".","c">>)

EmailLower == Str(<<"a","@","b",".","c">>)

EmailOther == Str(<<"d","@","b",".","c">>)

Password == Str(<<"p","w">>)

OtherPassword == Str(<<"p","W">>)

NameAbc == Str(<<"A","b","c">>)

NameABC == Str(<<"A","B","C">>)

NameRat == Str(<<"R","a","t">>)

NameRAT == Str(<<"R","A","T">>)

NameAd == Str(<<"a","d">>)

Sex == Str(<<"m","a","l","e">>)

ValidForms ==
    { Form(EmailUpper, Password, Password, NameAbc, Sex),
      Form(EmailLower, Password, Password, NameABC, Sex),
      Form(EmailOther, Password, Password, NameAbc, Sex),
      Form(EmailOther, Password, Password, NameABC, Sex) }

InvalidForms ==
    { Form(EmailUpper, Password, Password, NameAd, Sex),
      Form(EmailUpper, Password, Password, NameRat, Sex),
      Form(EmailOther, Password, Password, NameRAT, Sex),
      Form(EmailUpper, Password, OtherPassword, NameAbc, Sex),
      Form(Null, Password, Password, NameAbc, Sex),
      Form(EmailUpper, File, File, NameAbc, Str(<<>>)) }

Forms == ValidForms \cup InvalidForms

InitialMonsters == { NameRat.s }

-----------------------------------------------------------------------------
(* Actions of the registration workflow *)

WorkflowInit ==
    /\ accounts = <<>>
    /\ players = <<>>
    /\ emailVerifications = <<>>
    /\ outbox = <<>>
    /\ req = [r \in Requests |-> IdleRequest]

NameIdle == [done |-> FALSE, res |-> NoError, step |-> 0,
             monsterLookup |-> FALSE]

TownsIdle == [done |-> FALSE, threw |-> FALSE, towns |-> <<>>]

EngineIdle ==
    /\ nameIn = Null
    /\ nameOut = NameIdle
    /\ vRules = <<>>
    /\ vData = <<>>
    /\ vPos = <<1, 1>>
    /\ vErrors = NoErrors
    /\ vCalls = <<>>
    /\ guardOut = "none"
    /\ towns = <<>>
    /\ townsOut = TownsIdle

Init ==
    /\ WorkflowInit
    /\ EngineIdle
    /\ monsters = InitialMonsters
    /\ collation \in {"cs", "ci"}

tables == <<accounts, players, emailVerifications>>

engine == <<nameIn, nameOut, vRules, vData, vPos, vErrors, vCalls,
            guardOut, towns, townsOut>>

\* const data = await request.formData(); requests are numbered as they arrive
Submit(r) ==
    /\ req[r].pc = "idle"
    /\ r > 1 => req[r - 1].pc # "idle"
    /\ \E form \in Forms :
           req' = [req EXCEPT ![r].pc = "validate", ![r].form = form]
    /\ UNCHANGED <<tables, outbox, monsters, collation, engine>>

\* the exit taken only when more than one field has errors
ValidateOffByOne(r) ==
    /\ req[r].pc = "validate"
    /\ LET errors == validate(RegistrationRules, req[r].form)
       IN IF Cardinality(DOMAIN errors) > 1
          THEN Finish(r, Fail(TRUE, errors), <<"validate">>)
          ELSE IF ~GuardsHold(req[r].form)
               THEN Finish(r, Thrown("invariant"), <<"validate">>)
               ELSE Goto(r, "findAccount", <<"validate">>)
    /\ UNCHANGED <<tables, outbox, monsters, collation, engine>>

\* validate(...), the exit on errors and the invariant guards
Validate(r) ==
    /\ req[r].pc = "validate"
    /\ LET errors == validate(RegistrationRules, req[r].form)
       IN IF DOMAIN errors # {}
          THEN Finish(r, Fail(TRUE, errors), <<"validate">>)
          ELSE IF ~GuardsHold(req[r].form)
               THEN Finish(r, Thrown("invariant"), <<"validate">>)
               ELSE Goto(r, "findAccount", <<"validate">>)
    /\ UNCHANGED <<tables, outbox, monsters, collation, engine>>

\* the hashing deferred until after the character-name pre-check
FindAccountHashLater(r) ==
    /\ req[r].pc = "findAccount"
    /\ LET email == normalizeEmail(req[r].form)
       IN IF \E i \in 1..Len(accounts) : DbEq(accounts[i].email, email)
          THEN Finish(r, Fail(FALSE, K_email :> << <<"Email is already taken">> >>),
                      <<"toLowerCase", "findUnique">>)
          ELSE Goto(r, "findPlayer",
                    <<"toLowerCase", "findUnique", "generateCharacterInput">>)
    /\ UNCHANGED <<tables, outbox, monsters, collation, engine>>

\* the lookup with the email as submitted
FindAccountRaw(r) ==
    /\ req[r].pc = "findAccount"
    /\ LET email == normalizeEmailRaw(req[r].form)
       IN IF \E i \in 1..Len(accounts) : DbEq(accounts[i].email, email)
          THEN Finish(r, Fail(FALSE, K_email :> << <<"Email is already taken">> >>),
                      <<"toLowerCase", "findUnique">>)
          ELSE Goto(r, "findPlayer",
                    <<"toLowerCase", "findUnique", "hashPassword",
                      "generateCharacterInput">>)
    /\ UNCHANGED <<tables, outbox, monsters, collation, engine>>

\* email = email.toLowerCase() and prisma.accounts.findUnique({ where:
\* { email } }), then hashPassword and generateCharacterInput
FindAccount(r) ==
    /\ req[r].pc = "findAccount"
    /\ LET email == normalizeEmail(req[r].form)
       IN IF \E i \in 1..Len(accounts) : DbEq(accounts[i].email, email)
          THEN Finish(r, Fail(FALSE, K_email :> << <<"Email is already taken">> >>),
                      <<"toLowerCase", "findUnique">>)
          ELSE Goto(r, "findPlayer",
                    <<"toLowerCase", "findUnique", "hashPassword",
                      "generateCharacterInput">>)
    /\ UNCHANGED <<tables, outbox, monsters, collation, engine>>

\* without the exit on an existing player
FindPlayerNoExit(r) ==
    /\ req[r].pc = "findPlayer"
    /\ Goto(r, "create", <<"findFirst">>)
    /\ UNCHANGED <<tables, outbox, monsters, collation, engine>>

\* prisma.players.findFirst({ where: { name: characterName } })
FindPlayer(r) ==
    /\ req[r].pc = "findPlayer"
    /\ LET name == FormGet(req[r].form, K_characterName).s
       IN IF \E i \in 1..Len(players) : DbEq(players[i].name, name)
          THEN Finish(r, Fail(FALSE, K_characterName :>
                                  << <<"Character name is already taken">> >>),
                      <<"findFirst">>)
          ELSE Goto(r, "create", <<"findFirst">>)
    /\ UNCHANGED <<tables, outbox, monsters, collation, engine>>

\* prisma.accounts.create({ data, include: { emailVerification: true } }):
\* one transaction; a unique index violation rejects the promise, which the
\* action does not catch
Create(r) ==
    /\ req[r].pc = "create"
    /\ LET data == accountCreateData(req[r].form)
           id   == Len(accounts) + 1
           verifications ==
               [k \in 1..Len(data.emailVerification) |->
                    [account_id |-> id, token |-> Len(emailVerifications) + k]]
       IN IF \E k \in 1..Len(data.players) :
                 UniqueViolation(data.email, data.players[k].name)
          THEN /\ Finish(r, Thrown("error"), <<"create">>)
               /\ UNCHANGED tables
          ELSE /\ accounts' = Append(accounts,
                      [id |-> id, email |-> data.email,
                       password |-> data.password])
               /\ players' = players \o
                      [k \in 1..Len(data.players) |->
                           data.players[k] @@ [account_id |-> id]]
               /\ emailVerifications' = emailVerifications \o verifications
               /\ IF verifications = <<>>
                  THEN Finish(r, Fail(FALSE, <<"g","l","o","b","a","l">> :>
                                          << <<"Failed to create account">> >>),
                              <<"create">>)
                  ELSE req' = [req EXCEPT ![r].pc = "send", ![r].created = id,
                                          ![r].log = Append(@, "create")]
    /\ UNCHANGED <<outbox, monsters, collation, engine>>

\* await sendVerificationEmail(created.email, created.emailVerification.token)
\* and throw redirect('/account/login', ...). The awaited promise resolves or
\* rejects; the await is not inside a try, so a rejection leaves the action
\* before the redirect.
Send(r) ==
    /\ req[r].pc = "send"
    /\ \E resolved \in BOOLEAN :
           IF resolved
           THEN /\ LET id == req[r].created
                       verification ==
                           CHOOSE k \in 1..Len(emailVerifications) :
                               emailVerifications[k].account_id = id
                   IN outbox' = Append(outbox,
                          [to |-> accounts[id].email,
                           token |-> emailVerifications[verification].token,
                           request |-> r])
                /\ Finish(r, Redirect("/account/login"),
                          <<"sendVerificationEmail", "redirect">>)
           ELSE /\ outbox' = outbox
                /\ Finish(r, Thrown("error"), <<"sendVerificationEmail">>)
    /\ UNCHANGED <<tables, monsters, collation, engine>>

Next ==
    \E r \in Requests :
        \/ Submit(r)
        \/ Validate(r)
        \/ FindAccount(r)
        \/ FindPlayer(r)
        \/ Create(r)
        \/ Send(r)

Spec == Init /\ [][Next]_vars


-----------------------------------------------------------------------------
(* characterNameValidator as a function of its input: SpecName *)

MaxInputLen == 4

NameAlphabet == {"a", "G", "m", " ", "-", "'", "1"}

\* every string over the alphabet of length at most n
StringsUpTo(n) ==
    UNION { [1..k -> NameAlphabet] : k \in 0..n }

\* every casing of a lower-case string
RECURSIVE Casings(_)
Casings(s) ==
    IF s = <<>> THEN { <<>> }
    ELSE { <<c>> \o t : c \in {Head(s), toUpperCaseChar(Head(s))},
                        t \in Casings(Tail(s)) }

Gamemaster == <<"g","a","m","e","m","a","s","t","e","r">>

SampleNames ==
    { <<"G","m","f","o","o">>,
      <<"G","r","e","g","o","r","y">>,
      <<"R","a","t">>,
      <<"R","A","T">>,
      <<"r","a","t">>,
      <<"R","a","t"," ","L","o","r","d">>,
      <<"A","b","c">>,
      <<"A","B","C">>,
      <<"J","o","H","N">>,
      <<"A","d","m","i","n">>,
      <<"S","l","e","n","d","e","r">>,
      <<"M","y"," ","S","l","e","n","d","e","r">>,
      <<"A","b","c","d","e","f","g","h","i","j","k","l","m","n","o","p","q","r","s","t">>,
      <<"A","b","c","d","e","f","g","h","i","j","k","l","m","n","o","p","q","r","s","t","u">>,
      <<"g","a","m","e","m","a","s","t","e","r","a","b","c","d","e","f","g","h","i","j","k">>,
      <<"G","a","m","e"," ","M","a","s","t","e","r">>,
      <<"A","b"," ","C","d">>,
      <<"A","b"," ","c","d">>,
      <<"A","b"," "," ","C","d">>,
      <<"A","b","c"," ">>,
      <<"G","o","d","r","i","c">>,
      <<"T","u","t","o","r">>,
      <<"A","b","1">>,
      <<"A","b","_","c">>,
      <<"a","d">> }

NameInputs ==
    {Null, File} \cup { Str(s) : s \in StringsUpTo(MaxInputLen)
                                      \cup Casings(Gamemaster) \cup SampleNames }

InitName ==
    /\ WorkflowInit
    /\ monsters = InitialMonsters
    /\ collation \in {"cs", "ci"}
    /\ nameIn \in NameInputs
    /\ nameOut = NameIdle
    /\ vRules = <<>>
    /\ vData = <<>>
    /\ vPos = <<1, 1>>
    /\ vErrors = NoErrors
    /\ vCalls = <<>>
    /\ guardOut = "none"
    /\ towns = <<>>
    /\ townsOut = TownsIdle

ApplyName ==
    /\ ~nameOut.done
    /\ nameOut' = characterNameValidator(nameIn)
    /\ UNCHANGED <<tables, req, outbox, monsters, collation, nameIn,
                   vRules, vData, vPos, vErrors, vCalls,
                   guardOut, towns, townsOut>>

SpecName == InitName /\ [][ApplyName]_vars


-----------------------------------------------------------------------------
(* validate as a loop over a caller's rule set: SpecValidate *)

MaxValidators == 2

SampleValidators ==
    {"presenceValidator", "emailValidator", "empty", "templated"}

ValidatorSeqs == UNION { [1..k -> SampleValidators] : k \in 0..MaxValidators }

SampleRuleSets ==
    { <<>> }
      \cup { << [key |-> k, validators |-> v] >> :
                 k \in {K_email, K_characterName}, v \in ValidatorSeqs }
      \cup { << [key |-> k[1], validators |-> v],
                [key |-> k[2], validators |-> w] >> :
                 k \in { <<K_email, K_characterName>>,
                         <<K_characterName, K_email>> },
                 v \in ValidatorSeqs, w \in ValidatorSeqs }

SampleData ==
    { <<>>, (K_email :> EmailLower) @@ (K_characterName :> NameAbc) }

InitValidate ==
    /\ WorkflowInit
    /\ monsters = InitialMonsters
    /\ collation = "cs"
    /\ nameIn = Null
    /\ nameOut = NameIdle
    /\ vRules \in SampleRuleSets
    /\ vData \in SampleData
    /\ vPos = firstPosFrom(vRules, 1)
    /\ vErrors = NoErrors
    /\ vCalls = <<>>
    /\ guardOut = "none"
    /\ towns = <<>>
    /\ townsOut = TownsIdle

ValidateDone == vPos[1] > Len(vRules)

\* one iteration of validate: the validator at vPos is awaited
ValidateStep ==
    /\ ~ValidateDone
    /\ vErrors' = iterate(vRules, vData, vPos, vErrors)
    /\ vCalls' = Append(vCalls, [key |-> vRules[vPos[1]].key, index |-> vPos[2],
                                 value |-> FormGet(vData, vRules[vPos[1]].key)])
    /\ vPos' = nextPos(vRules, vPos)
    /\ UNCHANGED <<tables, req, outbox, monsters, collation, nameIn, nameOut,
                   vRules, vData, guardOut, towns, townsOut>>

SpecValidate == InitValidate /\ [][ValidateStep]_vars


-----------------------------------------------------------------------------
(* validate and the guards that follow it, over every form: SpecGuards *)

\* a field of a submission is absent, an empty string, a file, or a string
FieldValues(strings) == {Null, Str(<<>>), File} \cup strings

\* FormData holds no entry for an absent field
Submitted(form) == [k \in {k \in DOMAIN form : form[k] # Null} |-> form[k]]

AllForms ==
    { Submitted(Form(email, password, passwordConfirmation, characterName,
                     characterSex)) :
          email \in FieldValues({EmailLower, EmailUpper, Str(<<"a","b">>)}),
          password \in FieldValues({Password, OtherPassword}),
          passwordConfirmation \in FieldValues({Password, OtherPassword}),
          characterName \in FieldValues({NameAbc, NameAd, NameRat}),
          characterSex \in FieldValues({Sex}) }

InitGuards ==
    /\ WorkflowInit
    /\ monsters = InitialMonsters
    /\ collation \in {"cs", "ci"}
    /\ nameIn = Null
    /\ nameOut = NameIdle
    /\ vRules = RegistrationRules
    /\ vData \in AllForms
    /\ vPos = firstPosFrom(vRules, 1)
    /\ vErrors = NoErrors
    /\ vCalls = <<>>
    /\ guardOut = "none"
    /\ towns = <<>>
    /\ townsOut = TownsIdle

\* if (Object.keys(errors).length > 0) return fail(...), then the
\* invariant(...) guards
Guard ==
    /\ ValidateDone
    /\ guardOut = "none"
    /\ guardOut' = IF DOMAIN vErrors # {} THEN "fail"
                   ELSE IF GuardsHold(vData) THEN "passed"
                        ELSE "thrown"
    /\ UNCHANGED <<tables, req, outbox, monsters, collation, nameIn, nameOut,
                   vRules, vData, vPos, vErrors, vCalls, towns, townsOut>>

SpecGuards == InitGuards /\ [][ValidateStep \/ Guard]_vars

-----------------------------------------------------------------------------
(* getAvailableTowns over the contents of the towns table: SpecTowns *)

MaxTowns == 2

TownNames == {"Dawnport Tutorial", "thais", "venore"}

TownIds == {1, 2, 8}

TownRows == [id : TownIds, name : TownNames, starter : BOOLEAN]

\* the tables of at most MaxTowns rows with distinct ids, in every order in
\* which findMany may return them
TownTables ==
    { t \in UNION { [1..n -> TownRows] : n \in 0..MaxTowns } :
          \A i, j \in 1..Len(t) : t[i].id = t[j].id => i = j }

IsStarter(town) == town.starter

\* prisma.towns.findMany({ where: { starter: true },
\*                         select: { id: true, name: true } })
findManyStarter(table) ==
    LET found == SelectSeq(table, IsStarter)
    IN [k \in 1..Len(found) |-> [id |-> found[k].id, name |-> found[k].name]]

FallbackTown == [id |-> 8, name |-> "thais"]

\* towns[0].id = 1 throws a TypeError when slice(1) left no town
getAvailableTowns(table) ==
    LET found == findManyStarter(table)
        list  == IF Len(found) > 0 THEN found ELSE <<FallbackTown>>
    IN IF list[1].name = "Dawnport Tutorial"
       THEN LET rest == Tail(list)
            IN IF rest = <<>>
               THEN [done |-> TRUE, threw |-> TRUE, towns |-> <<>>]
               ELSE [done |-> TRUE, threw |-> FALSE,
                     towns |-> [rest EXCEPT ![1].id = 1]]
       ELSE [done |-> TRUE, threw |-> FALSE, towns |-> list]

InitTowns ==
    /\ WorkflowInit
    /\ monsters = InitialMonsters
    /\ collation = "cs"
    /\ nameIn = Null
    /\ nameOut = NameIdle
    /\ vRules = <<>>
    /\ vData = <<>>
    /\ vPos = <<1, 1>>
    /\ vErrors = NoErrors
    /\ vCalls = <<>>
    /\ guardOut = "none"
    /\ towns \in TownTables
    /\ townsOut = TownsIdle

GetAvailableTowns ==
    /\ ~townsOut.done
    /\ townsOut' = getAvailableTowns(towns)
    /\ UNCHANGED <<tables, req, outbox, monsters, collation, nameIn, nameOut,
                   vRules, vData, vPos, vErrors, vCalls, guardOut, towns>>

SpecTowns == InitTowns /\ [][GetAvailableTowns]_vars

-----------------------------------------------------------------------------
(* Properties of the registration workflow, checked under Spec *)

Attempted(r, step) == \E k \in 1..Len(req[r].log) : req[r].log[k] = step

\* request r issued the creation and it was rejected by a unique index
LostRace(r) ==
    /\ req[r].pc = "done"
    /\ Attempted(r, "create")
    /\ req[r].created = 0

GlobalFailure ==
    Fail(FALSE, <<"g","l","o","b","a","l">> :> << <<"Failed to create account">> >>)

\* C1: no reachable state holds two Accounts whose emails are equal after
\* lower-casing, whatever the interleaving of the registration requests.
C1_EmailUnique ==
    \A i, j \in 1..Len(accounts) :
        toLowerCase(accounts[i].email) = toLowerCase(accounts[j].email) => i = j

\* two requests with the same email up to case both passed the pre-checks;
\* one created the Account and the other's creation was rejected
C1_Witness ==
    \E r1, r2 \in Requests :
        /\ req[r1].created > 0
        /\ LostRace(r2)
        /\ FormGet(req[r1].form, K_email) # FormGet(req[r2].form, K_email)
        /\ normalizeEmail(req[r1].form) = normalizeEmail(req[r2].form)

\* C2: a request that passed both pre-checks and whose creation hits a
\* unique index violation ends with the 400 failure carrying the global
\* 'Failed to create account' error, not with an unhandled error.
C2_RaceLoserGetsGlobalFailure ==
    \A r \in Requests : LostRace(r) => req[r].response = GlobalFailure

\* C3: in every reachable state each Account has its Email Verification
\* Token and exactly one Character, which is marked is_main.
C3_AccountComplete ==
    \A i \in 1..Len(accounts) :
        /\ \E k \in 1..Len(emailVerifications) :
               emailVerifications[k].account_id = accounts[i].id
        /\ Cardinality({k \in 1..Len(players) :
                            players[k].account_id = accounts[i].id}) = 1
        /\ \A k \in 1..Len(players) :
               players[k].account_id = accounts[i].id => players[k].is_main

\* an Account exists and another request ended on the error path of create
C3_Witness ==
    /\ Len(accounts) >= 1
    /\ \E r \in Requests : LostRace(r)

\* C4: no reachable state holds two Characters with the same stored name.
C4_NameUnique ==
    \A i, j \in 1..Len(players) : players[i].name = players[j].name => i = j

\* two requests with different emails and the same name both passed the
\* pre-checks; one created the Character and the other was rejected
C4_Witness ==
    \E r1, r2 \in Requests :
        /\ req[r1].created > 0
        /\ LostRace(r2)
        /\ normalizeEmail(req[r1].form) # normalizeEmail(req[r2].form)
        /\ FormGet(req[r1].form, K_characterName)
               = FormGet(req[r2].form, K_characterName)

Validated(r) == req[r].pc \notin {"idle", "validate"}

HasValidationErrors(r) ==
    DOMAIN validate(RegistrationRules, req[r].form) # {}

C5_Exit ==
    \A r \in Requests :
        Validated(r) =>
            LET report == validate(RegistrationRules, req[r].form)
            IN DOMAIN report # {} =>
                   /\ req[r].pc = "done"
                   /\ req[r].response = Fail(TRUE, report)
                   /\ req[r].response.status = 400
                   /\ req[r].log = <<"validate">>
                   /\ req[r].created = 0
                   /\ \A k \in 1..Len(outbox) : outbox[k].request # r

C5_Frame ==
    \A r \in Requests :
        (req[r].pc = "validate" /\ req'[r].pc # "validate"
           /\ HasValidationErrors(r)) =>
            UNCHANGED <<accounts, players, emailVerifications, outbox>>

\* C5: a request whose Error Report is not empty ends with the failure
\* {invalid: true, errors: report} at status 400; it performed no lookup,
\* hashing, creation or dispatch, and its step leaves the tables unchanged.
C5_ValidationFailureChangesNothing == []C5_Exit /\ [][C5_Frame]_vars

\* a request was rejected by validation while an Account of another request
\* is persisted
C5_Witness ==
    \E r \in Requests :
        /\ Validated(r) /\ HasValidationErrors(r)
        /\ req[r].response.invalid
        /\ Len(accounts) >= 1

-----------------------------------------------------------------------------
(* Properties of validate, checked under SpecValidate *)

\* what the validators of field i return, in their order
Results(i) ==
    [j \in 1..Len(vRules[i].validators) |-> invoke(vRules, vData, <<i, j>>)]

NonNull(error) == ~error.nil

NonEmpty(error) == ~error.nil /\ error.msg # <<>>

\* C6 as stated: the report has a key for f iff some validator of f returned
\* a non-null message, and lists exactly those non-null results in order.
C6_Original ==
    ValidateDone =>
        \A i \in 1..Len(vRules) :
            LET key  == vRules[i].key
                kept == SelectSeq(Results(i), NonNull)
            IN /\ key \in DOMAIN vErrors <=> kept # <<>>
               /\ key \in DOMAIN vErrors =>
                      vErrors[key] = [j \in 1..Len(kept) |-> kept[j].msg]

\* C6 amended: the report has a key for f iff some validator of f returned a
\* non-empty message, and lists those non-empty results in validator order,
\* each with its first ':field' replaced by the proper-cased field name.
C6_ReportMatchesResults ==
    ValidateDone =>
        /\ \A key \in DOMAIN vErrors :
               \E i \in 1..Len(vRules) : vRules[i].key = key
        /\ \A i \in 1..Len(vRules) :
               LET key  == vRules[i].key
                   kept == SelectSeq(Results(i), NonEmpty)
               IN /\ key \in DOMAIN vErrors <=> kept # <<>>
                  /\ key \in DOMAIN vErrors =>
                         vErrors[key] =
                             [j \in 1..Len(kept) |->
                                  replaceField(kept[j].msg, toProperCase(key))]

\* a field with two different messages, one of them a substituted template,
\* and a validator of the rule set that returned the empty string
C6_Witness ==
    /\ ValidateDone
    /\ K_characterName \in DOMAIN vErrors
    /\ Len(vErrors[K_characterName]) = 2
    /\ vErrors[K_characterName][2]
           = <<"C","h","a","r","a","c","t","e","r"," ","n","a","m","e">> \o <<" ", "is", " ", "bad">>
    /\ vErrors[K_characterName][1] # vErrors[K_characterName][2]
    /\ \E i \in 1..Len(vRules) : \E j \in 1..Len(vRules[i].validators) :
           vRules[i].validators[j] = "empty"

-----------------------------------------------------------------------------
(* Properties of characterNameValidator, checked under SpecName *)

\* policy step k rejects the value (evaluated on its own)
StepFails(k, v) ==
    CASE k = 1 -> ~IsString(v)
      [] k = 2 -> Len(v.s) < MinNameLen \/ Len(v.s) > MaxNameLen
      [] k = 3 -> toTitleCase(v.s) # v.s
      [] k = 4 -> HasBlockedPrefix(v.s)
      [] k = 5 -> HasBlockedWord(v.s)
      [] k = 6 -> trim(v.s) # v.s
      [] k = 7 -> ~MatchesNamePattern(toLowerCase(v.s))
      [] k = 8 -> countMonsters(v.s) > 0

StepMessage(k, v) ==
    CASE k = 0 -> NoError
      [] k = 1 -> Msg(<<"validations.string">>)
      [] k = 2 -> IF Len(v.s) < MinNameLen THEN MinLengthMsg ELSE MaxLengthMsg
      [] k = 3 -> Msg(<<"validations.title-case">>)
      [] k \in {4, 5, 6} -> Msg(<<"validations.blocked-words">>)
      [] k = 7 -> Msg(<<"validations.name">>)
      [] k = 8 -> Msg(<<"validations.name-monster">>)

FirstFailingStep(v) ==
    LET failing == {k \in 1..8 : StepFails(k, v)}
    IN IF failing = {} THEN 0
       ELSE CHOOSE k \in failing : \A l \in failing : k <= l

\* C7: the validator returns at the first failing step, in the order string,
\* length, casing, prefixes, phrases, trimmed, charset, monster, with that
\* step's message; the monster lookup is issued only when the seven earlier
\* steps pass; "ad" yields exactly the length message.
C7_FirstFailingStepDecides ==
    nameOut.done =>
        /\ nameOut.step = FirstFailingStep(nameIn)
        /\ nameOut.res = StepMessage(FirstFailingStep(nameIn), nameIn)
        /\ nameOut.monsterLookup = (\A k \in 1..7 : ~StepFails(k, nameIn))
        /\ nameIn = Str(<<"a", "d">>) => nameOut.res = MinLengthMsg

\* "ad" has been validated: it fails the length step and the casing step,
\* and the length message is returned
C7_Witness ==
    /\ nameOut.done
    /\ nameIn = Str(<<"a", "d">>)
    /\ StepFails(2, nameIn) /\ StepFails(3, nameIn)
    /\ nameOut.res = MinLengthMsg
    /\ ~nameOut.monsterLookup

\* the value contains the phrase, letter case ignored
ContainsIgnoringCase(s, phrase) ==
    \E i \in 1..(Len(s) - Len(phrase) + 1) :
        \A j \in 1..Len(phrase) : toLowerCaseChar(s[i + j - 1]) = phrase[j]

ContainsBlockedPhrase(s) ==
    \E k \in 1..Len(BLOCKED_WORDS) : ContainsIgnoringCase(s, BLOCKED_WORDS[k])

BlockedMsg == Msg(<<"validations.blocked-words">>)

\* C8 as stated: every casing of a name containing a blocked phrase, such
\* as "gamemaster", returns the blocked-content message.
C8_Original ==
    (nameOut.done /\ IsString(nameIn) /\ toLowerCase(nameIn.s) = Gamemaster)
        => nameOut.res = BlockedMsg

\* C8 amended: every name of length 3..20 that equals its own title-cased
\* transform and contains a blocked phrase in any letter case returns the
\* blocked-content message, so "Gamemaster" and "GAMEMASTER" do; a casing
\* that starts with a lower-case letter, "gamemaster", returns the casing
\* message instead.
C8_BlockedPhraseIgnoresCase ==
    (nameOut.done /\ IsString(nameIn)) =>
        /\ (/\ Len(nameIn.s) >= MinNameLen /\ Len(nameIn.s) <= MaxNameLen
            /\ toTitleCase(nameIn.s) = nameIn.s
            /\ ContainsBlockedPhrase(nameIn.s))
               => nameOut.res = BlockedMsg
        /\ toLowerCase(nameIn.s) = Gamemaster =>
               nameOut.res = IF IsUpper(nameIn.s[1]) THEN BlockedMsg
                             ELSE Msg(<<"validations.title-case">>)

\* "GAMEMASTER" has been validated and rejected at the phrase step
C8_Witness ==
    /\ nameOut.done
    /\ nameIn = Str(<<"G","A","M","E","M","A","S","T","E","R">>)
    /\ nameOut.step = 5
    /\ nameOut.res = BlockedMsg

IsLetter(c) == IsUpper(c) \/ IsLower(c)

\* a letter of the same word precedes position i
LetterBeforeInWord(s, i) ==
    \E j \in 1..(i - 1) :
        IsLetter(s[j]) /\ \A k \in j..(i - 1) : ~IsSpace(s[k])

\* C9: every string of length 3..20 with an upper-case letter in a
\* non-initial position of a word, or with a lower-case first letter of a
\* word, is rejected with the casing message.
C9_NotCapitalizedIsRejected ==
    (/\ nameOut.done /\ IsString(nameIn)
     /\ Len(nameIn.s) >= MinNameLen /\ Len(nameIn.s) <= MaxNameLen
     /\ \E i \in 1..Len(nameIn.s) :
            \/ IsUpper(nameIn.s[i]) /\ LetterBeforeInWord(nameIn.s, i)
            \/ IsLower(nameIn.s[i]) /\ ~LetterBeforeInWord(nameIn.s, i))
        => nameOut.res = Msg(<<"validations.title-case">>)

-----------------------------------------------------------------------------
(* The monster collision, checked under Spec *)

PassesFirstSeven(v) == IsString(v) /\ \A k \in 1..7 : ~StepFails(k, v)

NameOf(r) == FormGet(req[r].form, K_characterName)

RejectedBeforeAnyLookup(r) ==
    /\ req[r].pc = "done"
    /\ req[r].response.kind = "fail"
    /\ req[r].response.invalid
    /\ K_characterName \in DOMAIN req[r].response.errors
    /\ req[r].response.errors[K_characterName]
           = << <<"validations.name-monster">> >>
    /\ req[r].log = <<"validate">>
    /\ req[r].created = 0

-----------------------------------------------------------------------------
(* The pre-checks and the exits of the workflow, checked under Spec *)

EmailTaken == Fail(FALSE, K_email :> << <<"Email is already taken">> >>)

EmailOf(r) == FormGet(req[r].form, K_email)

Dispatched(r) == \E k \in 1..Len(outbox) : outbox[k].request = r

\* the step of request r that runs the email pre-check
EmailPreCheckRuns(r) == req[r].pc = "findAccount" /\ req'[r].pc # "findAccount"

C11_Step ==
    \A r \in Requests :
        (/\ EmailPreCheckRuns(r)
         /\ \E i \in 1..Len(accounts) :
                toLowerCase(accounts[i].email) = toLowerCase(EmailOf(r).s))
            => /\ req'[r].pc = "done"
               /\ req'[r].response = EmailTaken
               /\ UNCHANGED <<accounts, players, emailVerifications, outbox>>

C11_Exit ==
    \A r \in Requests :
        req[r].response = EmailTaken =>
            /\ req[r].pc = "done"
            /\ req[r].created = 0
            /\ ~Attempted(r, "create")
            /\ ~Dispatched(r)

\* C11: when the email pre-check of a valid registration runs while an
\* Account is persisted whose email equals the submitted one after
\* lower-casing, the request ends with the 400 failure carrying 'Email is
\* already taken' under email; the step changes no table and the request
\* creates and dispatches nothing.
C11_EmailTakenIgnoresCase == []C11_Exit /\ [][C11_Step]_vars

\* an Account was created from one casing of an email, and a later request
\* with another casing of it ended with the email collision
C11_Witness ==
    \E r1, r2 \in Requests :
        /\ req[r1].created > 0
        /\ req[r2].response = EmailTaken
        /\ EmailOf(r1) # EmailOf(r2)
        /\ toLowerCase(EmailOf(r1).s) = toLowerCase(EmailOf(r2).s)
        /\ accounts[req[r1].created].email = toLowerCase(EmailOf(r2).s)

CharacterNameTaken ==
    Fail(FALSE, K_characterName :> << <<"Character name is already taken">> >>)

\* the step of request r that runs the character-name pre-check
NamePreCheckRuns(r) == req[r].pc = "findPlayer" /\ req'[r].pc # "findPlayer"

C12_Step ==
    \A r \in Requests :
        (/\ NamePreCheckRuns(r)
         /\ \E i \in 1..Len(players) : players[i].name = NameOf(r).s)
            => /\ req'[r].pc = "done"
               /\ req'[r].response = CharacterNameTaken
               /\ req'[r].response.status = 400
               /\ UNCHANGED <<accounts, players, emailVerifications, outbox>>

C12_Exit ==
    \A r \in Requests :
        req[r].response = CharacterNameTaken =>
            /\ req[r].pc = "done"
            /\ req[r].created = 0
            /\ ~Attempted(r, "create")
            /\ ~Attempted(r, "sendVerificationEmail")
            /\ ~Dispatched(r)

\* C12: when the character-name pre-check of a request runs while a
\* Character with exactly the submitted name is persisted, the request ends
\* with the 400 failure carrying 'Character name is already taken' under
\* characterName; the step changes no table, and the request creates no
\* Account, Character or token and dispatches no email.
C12_NameTakenCreatesNothing == []C12_Exit /\ [][C12_Step]_vars

\* a request with a new email and the name of a persisted Character passed
\* validation and the email pre-check and ended with the name collision
C12_Witness ==
    \E r \in Requests :
        /\ req[r].response = CharacterNameTaken
        /\ Attempted(r, "findUnique")
        /\ \E i \in 1..Len(players) : players[i].name = NameOf(r).s
        /\ \A i \in 1..Len(accounts) :
               accounts[i].email # toLowerCase(EmailOf(r).s)

PasswordsDiffer(r) ==
    ~StrictEq(FormGet(req[r].form, K_passwordConfirmation),
              FormGet(req[r].form, K_password))

MismatchReported(r) ==
    /\ req[r].response.kind = "fail"
    /\ req[r].response.invalid
    /\ K_passwordConfirmation \in DOMAIN req[r].response.errors
    /\ \E k \in 1..Len(req[r].response.errors[K_passwordConfirmation]) :
           req[r].response.errors[K_passwordConfirmation][k]
               = <<"Passwords do not match">>

C13_Exit ==
    \A r \in Requests :
        /\ (Validated(r) /\ PasswordsDiffer(r)) =>
               /\ req[r].pc = "done"
               /\ MismatchReported(r)
               /\ req[r].log = <<"validate">>
               /\ req[r].created = 0
        /\ Attempted(r, "findUnique") => ~PasswordsDiffer(r)

C13_Frame ==
    \A r \in Requests :
        (req[r].pc = "validate" /\ req'[r].pc # "validate"
           /\ PasswordsDiffer(r)) =>
            UNCHANGED <<accounts, players, emailVerifications, outbox>>

\* C13: a request whose password and passwordConfirmation differ ends at
\* validation with a report that lists 'Passwords do not match' under
\* passwordConfirmation, having made no lookup, creation or dispatch and
\* changed no table; a request that went past validation submitted a
\* confirmation equal to the password.
C13_MismatchStopsAtValidation == []C13_Exit /\ [][C13_Frame]_vars

\* a request whose only defect is a confirmation that differs from the
\* password in the case of one letter was rejected with the mismatch alone
C13_Witness ==
    \E r \in Requests :
        /\ req[r].pc = "done"
        /\ FormGet(req[r].form, K_password) = Password
        /\ FormGet(req[r].form, K_passwordConfirmation) = OtherPassword
        /\ req[r].response.errors
               = (K_passwordConfirmation :> << <<"Passwords do not match">> >>)

\* the creation of request r succeeded and its dispatch did not deliver
DispatchFailed(r) ==
    /\ req[r].pc = "done"
    /\ req[r].created > 0
    /\ Attempted(r, "sendVerificationEmail")
    /\ ~Dispatched(r)

RowsPersisted(id) ==
    /\ id \in 1..Len(accounts)
    /\ \E k \in 1..Len(players) : players[k].account_id = id
    /\ \E k \in 1..Len(emailVerifications) :
           emailVerifications[k].account_id = id

\* C14: a request whose creation succeeded and whose verification email
\* failed to be dispatched still ends with the success redirect to the login
\* destination, and its Account, Character and token remain persisted.
C14_DispatchFailureNotFatal ==
    \A r \in Requests :
        DispatchFailed(r) =>
            /\ req[r].response = Redirect("/account/login")
            /\ RowsPersisted(req[r].created)

-----------------------------------------------------------------------------
(* The order of the validator calls, checked under SpecValidate *)

\* every validator of the rule set from field i on, in declared order, each
\* with the raw value of its field
RECURSIVE DeclaredCalls(_, _, _)
DeclaredCalls(rules, data, i) ==
    IF i > Len(rules) THEN <<>>
    ELSE [j \in 1..Len(rules[i].validators) |->
              [key |-> rules[i].key, index |-> j,
               value |-> FormGet(data, rules[i].key)]]
           \o DeclaredCalls(rules, data, i + 1)

IsPrefix(s, t) == Len(s) <= Len(t) /\ SubSeq(t, 1, Len(s)) = s

\* C15: at every point of a validate call the validators invoked so far are
\* an initial part of the declared validators, field by field and in each
\* field's declared order, each invoked with the raw value of its field; when
\* the call returns every declared validator has been invoked exactly once,
\* whatever errors were recorded on the way.
C15_EveryValidatorOnceInOrder ==
    /\ IsPrefix(vCalls, DeclaredCalls(vRules, vData, 1))
    /\ ValidateDone => vCalls = DeclaredCalls(vRules, vData, 1)

\* a call over two fields of two validators each has returned: the first
\* validator of the first field failed, and all four were invoked
C15_Witness ==
    /\ ValidateDone
    /\ Len(vRules) = 2
    /\ Len(vCalls) = 4
    /\ IsError(invoke(vRules, vData, <<1, 1>>))
    /\ vRules[1].key \in DOMAIN vErrors
    /\ vCalls[2].key = vRules[1].key /\ vCalls[2].index = 2
    /\ vCalls[4].key = vRules[2].key /\ vCalls[4].index = 2

-----------------------------------------------------------------------------
(* The order of the steps of one request, checked under Spec *)

\* the order in which the claim states the steps
StatedOrder ==
    <<"validate", "toLowerCase", "findUnique", "generateCharacterInput",
      "findFirst", "hashPassword", "create", "sendVerificationEmail",
      "redirect">>

\* the order in which the action takes them
ActionOrder ==
    <<"validate", "toLowerCase", "findUnique", "hashPassword",
      "generateCharacterInput", "findFirst", "create",
      "sendVerificationEmail", "redirect">>

\* C16 as stated: the steps of a request occur in the order validation,
\* normalization, email pre-check, payload derivation, character-name
\* pre-check, hashing, creation, dispatch, redirect, and a request that ends
\* with CharacterNameTaken never hashed the password.
C16_Original ==
    \A r \in Requests :
        /\ IsPrefix(req[r].log, StatedOrder)
        /\ req[r].response = CharacterNameTaken => ~Attempted(r, "hashPassword")

\* C16 amended: the steps of a request occur in the order validation,
\* normalization, email pre-check, hashing, payload derivation,
\* character-name pre-check, creation, dispatch, redirect; the password is
\* hashed after the email pre-check has passed and before the character-name
\* pre-check, so a request that ends with ValidationFailed or EmailTaken
\* never hashed the password and one that ends with CharacterNameTaken did.
C16_StepsInOrder ==
    \A r \in Requests :
        /\ IsPrefix(req[r].log, ActionOrder)
        /\ req[r].response = CharacterNameTaken => Attempted(r, "hashPassword")
        /\ (req[r].response = EmailTaken \/ req[r].response.invalid)
               => ~Attempted(r, "hashPassword")

\* one request went through every step to the redirect and another ended
\* with CharacterNameTaken after hashing its password
C16_Witness ==
    \E r1, r2 \in Requests :
        /\ req[r1].log = ActionOrder
        /\ req[r2].response = CharacterNameTaken
        /\ req[r2].log = SubSeq(ActionOrder, 1, 6)

-----------------------------------------------------------------------------
(* The dispatch of the verification email, checked under Spec *)

Redirected(r) == req[r].response = Redirect("/account/login")

\* the creation of request r was issued and did not yield an Account with
\* its token
CreationYieldedNothing(r) ==
    /\ Attempted(r, "create")
    /\ req[r].created = 0

\* C17: the verification email is dispatched at most once per request, only
\* after the creation returned the Account and its token, to that Account's
\* email with that token; a request whose creation did not yield both ends
\* with the global failure and dispatches nothing; the redirect is issued
\* only after the dispatch.
C17_DispatchOnceAfterCreation ==
    /\ \A k, l \in 1..Len(outbox) :
           outbox[k].request = outbox[l].request => k = l
    /\ \A k \in 1..Len(outbox) :
           LET id == req[outbox[k].request].created
           IN /\ id \in 1..Len(accounts)
              /\ outbox[k].to = accounts[id].email
              /\ \E v \in 1..Len(emailVerifications) :
                     /\ emailVerifications[v].account_id = id
                     /\ emailVerifications[v].token = outbox[k].token
    /\ \A r \in Requests :
           /\ CreationYieldedNothing(r) =>
                  /\ req[r].response = GlobalFailure
                  /\ ~Dispatched(r)
           /\ Redirected(r) => Dispatched(r)

-----------------------------------------------------------------------------
(* Termination of a request, checked under SpecFair *)

\* the steps of request r that follow the arrival of its form
Step(r) ==
    \/ Validate(r)
    \/ FindAccount(r)
    \/ FindPlayer(r)
    \/ Create(r)
    \/ Send(r)

\* every await of a request eventually returns
SpecFair == Spec /\ \A r \in Requests : WF_vars(Step(r))

ValidationFailed(r) ==
    /\ req[r].response.kind = "fail"
    /\ req[r].response.invalid
    /\ req[r].response.errors # NoErrors

\* request r has ended with one of the five exits
EndedInOneOfFive(r) ==
    /\ req[r].pc = "done"
    /\ \/ Redirected(r)
       \/ ValidationFailed(r)
       \/ req[r].response = EmailTaken
       \/ req[r].response = CharacterNameTaken
       \/ req[r].response = GlobalFailure

\* C18: no request ends outside the five exits: a request that has reached
\* its end has ended with the success redirect, ValidationFailed, EmailTaken,
\* CharacterNameTaken or PersistenceFailed. This is the claim on finite
\* runs: what each run of SpecFair that ends a request must satisfy.
C18_EndsOnlyInOneOfFive ==
    \A r \in Requests : req[r].pc = "done" => EndedInOneOfFive(r)

-----------------------------------------------------------------------------
(* The guards after validation, checked under SpecGuards *)

IsNonEmptyString(v) == v.t = "string" /\ Len(v.s) > 0

\* C19: for every submission, each field absent, an empty string, a file or
\* a string, an empty report of validate implies that email, password,
\* characterName and characterSex are non-empty strings; the guards that
\* follow validation never throw.
C19_GuardsNeverFire ==
    /\ (ValidateDone /\ DOMAIN vErrors = {}) =>
           /\ IsNonEmptyString(FormGet(vData, K_email))
           /\ IsNonEmptyString(FormGet(vData, K_password))
           /\ IsNonEmptyString(FormGet(vData, K_characterName))
           /\ IsNonEmptyString(FormGet(vData, K_characterSex))
    /\ guardOut # "thrown"

\* validate returned an empty report for a submission and the guards passed
C19_Witness ==
    /\ ValidateDone
    /\ vErrors = NoErrors
    /\ Len(vCalls) = 11
    /\ guardOut = "passed"

-----------------------------------------------------------------------------
(* The result of getAvailableTowns, checked under SpecTowns *)

\* C20: for every content of the towns table getAvailableTowns returns
\* without an error a non-empty list: the fallback town when no town is a
\* starter town, otherwise the starter towns, a leading 'Dawnport Tutorial'
\* removed and the id of the first remaining town set to 1.
C20_TownsReturned ==
    townsOut.done =>
        LET starters == findManyStarter(towns)
        IN /\ ~townsOut.threw
           /\ townsOut.towns # <<>>
           /\ starters = <<>> => townsOut.towns = <<FallbackTown>>
           /\ (starters # <<>> /\ starters[1].name # "Dawnport Tutorial")
                  => townsOut.towns = starters
           /\ (starters # <<>> /\ starters[1].name = "Dawnport Tutorial")
                  => /\ Len(townsOut.towns) = Len(starters) - 1
                     /\ townsOut.towns[1].id = 1
                     /\ townsOut.towns[1].name = starters[2].name
                     /\ \A k \in 2..Len(townsOut.towns) :
                            townsOut.towns[k] = starters[k + 1]

=============================================================================
